---- MODULE Spec2Model ----
(***************************************************************************)
(* State-machine model of backtesting/data/loader.py (class DataLoader).   *)
(* The SymbolTable is the dict self.data; every public method is one       *)
(* action.  External collaborators (the market-data provider, the CSV      *)
(* directory, the Excel workbook) answer each read nondeterministically.   *)
(***************************************************************************)
EXTENDS Integers, Sequences, FiniteSets, TLC

\* ---------------------------------------------------------------- bounds
MaxSymbols == 2     \* longest symbols list passed to a call
MaxPeriod == 2      \* largest period passed to calculate_returns

Symbols == {"A", "B"}

RECURSIVE SeqsUpTo(_, _)
SeqsUpTo(S, n) ==
    IF n = 0 THEN {<<>>}
    ELSE LET shorter == SeqsUpTo(S, n - 1)
         IN  shorter \cup {Append(q, x) : q \in {r \in shorter : Len(r) = n - 1}, x \in S}

SymbolLists == SeqsUpTo(Symbols, MaxSymbols)
Periods == 1..MaxPeriod

\* ------------------------------------------------------- strings, str.lower
\* A string argument is a sequence of one-character strings.
UpperLetters == <<"A","B","C","D","E","F","G","H","I","J","K","L","M",
                  "N","O","P","Q","R","S","T","U","V","W","X","Y","Z">>
LowerLetters == <<"a","b","c","d","e","f","g","h","i","j","k","l","m",
                  "n","o","p","q","r","s","t","u","v","w","x","y","z">>

LowerChar(c) ==
    IF \E i \in 1..Len(UpperLetters) : UpperLetters[i] = c
    THEN LowerLetters[CHOOSE i \in 1..Len(UpperLetters) : UpperLetters[i] = c]
    ELSE c

SameChars(str) == str

Lower(str) == [i \in 1..Len(str) |-> LowerChar(str[i])]

StrYfinance == <<"y","f","i","n","a","n","c","e">>
StrCsv == <<"c","s","v">>
StrExcel == <<"e","x","c","e","l">>
StrSimple == <<"s","i","m","p","l","e">>
StrLog == <<"l","o","g">>

\* source and method arguments the callers pass
SourceArgs == {StrYfinance, <<"C","S","V">>, <<"E","x","c","e","l">>, <<"s","q","l">>}
MethodArgs == {StrSimple, <<"L","o","g">>, <<"g","e","o">>}

\* ------------------------------------------------------------ dict (ordered)
\* A Python dict: keys in insertion order plus the key -> value mapping.
EmptyDict == [keys |-> <<>>, map |-> <<>>]

Has(d, k) == k \in DOMAIN d.map

DictSet(d, k, v) ==
    [keys |-> IF Has(d, k) THEN d.keys ELSE Append(d.keys, k),
     map  |-> [x \in (DOMAIN d.map) \cup {k} |-> IF x = k THEN v ELSE d.map[x]]]

RECURSIVE UpdateFrom(_, _, _)
UpdateFrom(d, other, i) ==
    IF i > Len(other.keys) THEN d
    ELSE UpdateFrom(DictSet(d, other.keys[i], other.map[other.keys[i]]), other, i + 1)

KeepExisting(d, other) ==
    [keys |-> UpdateFrom(d, other, 1).keys,
     map  |-> [x \in (DOMAIN d.map) \cup (DOMAIN other.map) |->
                 IF x \in DOMAIN d.map THEN d.map[x] ELSE other.map[x]]]

ReplaceAll(d, other) == other

\* dict.update(other)
DictUpdate(d, other) == UpdateFrom(d, other, 1)

\* ------------------------------------------------------ tables (DataFrame)
\* A DataFrame: the row index and the columns, each a sequence of cells.
ProviderFields == {"Open", "High", "Low", "Close", "Volume"}
CanonicalFields == {"open", "high", "low", "close", "volume"}

\* the close prices the collaborators hold (the provider's are those of the
\* worked example: closes 100, 110, 99)
ProviderCloses == <<100, 110, 99>>
CsvCloses == <<50, 75>>
SheetCloses == <<20, 25, 30, 24>>

DateText(i) == 20240100 + i
Timestamp(i) == [year |-> 2024, month |-> 1, day |-> i]

\* pd.to_datetime on one cell of date text (YYYYMMDD digits)
ToDatetime(txt) ==
    [year |-> txt \div 10000, month |-> (txt \div 100) % 100, day |-> txt % 100]

FieldCell(c, closes, i) ==
    CASE c \in {"Open", "open"}     -> closes[i] - 1
      [] c \in {"High", "high"}     -> closes[i] + 2
      [] c \in {"Low", "low"}       -> closes[i] - 3
      [] c \in {"Close", "close"}   -> closes[i]
      [] c \in {"Volume", "volume"} -> 1000 * i
      [] c = "date"                 -> DateText(i)
      [] OTHER                      -> 0

\* what ticker.history can hand back
ProviderTable(colset) ==
    [index |-> [i \in 1..Len(ProviderCloses) |-> Timestamp(i)],
     cols  |-> [c \in colset |->
                  [i \in 1..Len(ProviderCloses) |-> FieldCell(c, ProviderCloses, i)]]]

\* what pd.read_csv / pd.read_excel can hand back (default positional index)
FileTable(colset, closes) ==
    [index |-> [i \in 1..Len(closes) |-> i - 1],
     cols  |-> [c \in colset |-> [i \in 1..Len(closes) |-> FieldCell(c, closes, i)]]]

Columns(df) == DOMAIN df.cols

\* df.rename(columns={...}) with the mapping of lines 99-105
CanonicalName(c) ==
    CASE c = "Open"   -> "open"
      [] c = "High"   -> "high"
      [] c = "Low"    -> "low"
      [] c = "Close"  -> "close"
      [] c = "Volume" -> "volume"
      [] OTHER        -> c

KeepNativeNames(df) == df

RenameColumns(df) ==
    [index |-> df.index,
     cols  |-> [n \in {CanonicalName(c) : c \in Columns(df)} |->
                  df.cols[CHOOSE c \in Columns(df) : CanonicalName(c) = n]]]

\* df['date'] = pd.to_datetime(df['date']); df.set_index('date', inplace=True)
PromoteDate(df) ==
    IF "date" \in Columns(df)
    THEN [index |-> [i \in 1..Len(df.cols["date"]) |-> ToDatetime(df.cols["date"][i])],
          cols  |-> [c \in Columns(df) \ {"date"} |-> df.cols[c]]]
    ELSE df

\* df[name] = cells
SetColumn(df, name, cells) ==
    [index |-> df.index,
     cols  |-> [c \in Columns(df) \cup {name} |-> IF c = name THEN cells ELSE df.cols[c]]]

\* ------------------------------------------------------- return arithmetic
\* A computed cell: NaN (pandas' missing marker), an exact ratio num/den, or
\* the natural logarithm of a ratio num/den (kept symbolic).
NaN == [kind |-> "nan", num |-> 0, den |-> 0]

RECURSIVE Gcd(_, _)
Gcd(a, b) == IF b = 0 THEN a ELSE Gcd(b, a % b)

Abs(x) == IF x < 0 THEN 0 - x ELSE x

\* the ratio n/d in lowest terms, d > 0
Ratio(n, d) ==
    LET g == Gcd(Abs(n), Abs(d))
        sgn == IF d < 0 THEN 0 - 1 ELSE 1
    IN  [kind |-> "ratio", num |-> sgn * (n \div g), den |-> sgn * (d \div g)]

\* Series.shift(period): row t takes the value of row t - period
Shift(cells, period) ==
    [t \in 1..Len(cells) |-> IF t <= period THEN NaN ELSE Ratio(cells[t - period], 1)]

\* elementwise cells / shifted  (prices are positive, so no zero divisor)
Divide(cells, shifted) ==
    [t \in 1..Len(cells) |->
        IF shifted[t].kind = "nan" THEN NaN
        ELSE Ratio(cells[t] * shifted[t].den, shifted[t].num)]

MinusOne(q) == IF q.kind = "nan" THEN NaN ELSE Ratio(q.num - q.den, q.den)

ZeroFilled(cells, period) ==
    [t \in 1..Len(cells) |->
        IF t <= period THEN Ratio(0, 1)
        ELSE MinusOne(Divide(cells, Shift(cells, period))[t])]

\* Series.pct_change(period)  ==  cells / cells.shift(period) - 1
PctChange(cells, period) ==
    [t \in 1..Len(cells) |-> MinusOne(Divide(cells, Shift(cells, period))[t])]

\* np.log on one cell
NpLog(q) == IF q.kind = "nan" THEN NaN ELSE [kind |-> "ln", num |-> q.num, den |-> q.den]

\* np.log(cells / cells.shift(period))
LogReturn(cells, period) ==
    [t \in 1..Len(cells) |-> NpLog(Divide(cells, Shift(cells, period))[t])]

\* ------------------------------------------------------------------ state
VARIABLES
    data,       \* self.data, the SymbolTable (an ordered dict symbol -> DataFrame)
    prior,      \* self.data as it was when the last call started
    call,       \* the last call: method name, arguments, collaborators' answers
    outcome,    \* how the last call ended: [exc, line] ("none" when it returned)
    result,     \* what the last call returned (EmptyDict when it raised)
    reads       \* symbols for which the last call asked a collaborator, in order

vars == <<data, prior, call, outcome, result, reads>>

Returned == [exc |-> "none", line |-> 0]
Raised(exc, line) == [exc |-> exc, line |-> line]

NoCall ==
    [name |-> "__init__", source |-> <<>>, symbols |-> <<>>, answers |-> <<>>,
     exists |-> FALSE, none |-> FALSE, period |-> 0, method |-> <<>>, symbol |-> ""]

\* ------------------------------------------------ collaborators' answers
\* Within one call a collaborator is asked per symbol and answers with one of
\* the cases below; answers maps each requested symbol to the case.

\* ticker.history: raises, or returns an empty frame, a frame without
\* 'Close', or the full native frame
FetchAnswers == {"raise", "empty", "no_close", "full"}

FetchedFrame(answer) ==
    CASE answer = "empty"    -> ProviderTable({})
      [] answer = "no_close" -> ProviderTable({"Open", "High", "Low", "Volume"})
      [] OTHER               -> ProviderTable(ProviderFields \cup {"Dividends"})

\* <directory>/<symbol>.csv: no such file, a file without 'close', a full file
CsvAnswers == {"absent", "no_close", "full"}

CsvFrame(answer) ==
    CASE answer = "no_close" -> FileTable({"date", "open", "high", "low", "volume"}, CsvCloses)
      [] OTHER               -> FileTable({"date"} \cup CanonicalFields, CsvCloses)

\* the sheet named <symbol>: reading fails, or a sheet in native capitals
SheetAnswers == {"raise", "native"}

SheetFrame(answer) == FileTable({"date"} \cup ProviderFields, SheetCloses)

Range(f) == {f[i] : i \in DOMAIN f}

AnswersFor(answerSet, symbols) == [Range(symbols) -> answerSet]

\* ------------------------------------------------ DataLoader._load_from_yfinance
\* One pass of the for loop of lines 89-107; lines 109-110 run when it ends.
RECURSIVE YfinanceLoop(_, _, _, _, _)
YfinanceLoop(symbols, answers, i, res, rd) ==
    IF i > Len(symbols) THEN [outcome |-> Returned, result |-> res, reads |-> rd]
    ELSE LET symbol == symbols[i]
             df == FetchedFrame(answers[symbol])
         IN  IF answers[symbol] = "raise"
             THEN [outcome |-> Raised("Exception", 91), result |-> EmptyDict,
                   reads |-> Append(rd, symbol)]
             ELSE IF "Open" \notin Columns(df) \/ "Close" \notin Columns(df)
             THEN YfinanceLoop(symbols, answers, i + 1, res, Append(rd, symbol))
             ELSE YfinanceLoop(symbols, answers, i + 1,
                               DictSet(res, symbol, RenameColumns(df)), Append(rd, symbol))

LoadFromYfinance(d, symbols, answers) ==
    LET r == YfinanceLoop(symbols, answers, 1, EmptyDict, <<>>)
    IN  [data    |-> IF r.outcome = Returned THEN DictUpdate(d, r.result) ELSE d,
         outcome |-> r.outcome, result |-> r.result, reads |-> r.reads]

\* ------------------------------------------------ DataLoader._load_from_csv
\* One pass of the for loop of lines 134-152; lines 154-155 run when it ends.
\* The loop over the five required columns (148-150) only prints.
RECURSIVE CsvLoop(_, _, _, _, _)
CsvLoop(symbols, answers, i, res, rd) ==
    IF i > Len(symbols) THEN [outcome |-> Returned, result |-> res, reads |-> rd]
    ELSE LET symbol == symbols[i]
         IN  IF answers[symbol] = "absent"
             THEN CsvLoop(symbols, answers, i + 1, res, rd)
             ELSE CsvLoop(symbols, answers, i + 1,
                          DictSet(res, symbol, PromoteDate(CsvFrame(answers[symbol]))),
                          Append(rd, symbol))

LoadFromCsv(d, symbols, answers) ==
    LET r == CsvLoop(symbols, answers, 1, EmptyDict, <<>>)
    IN  [data    |-> IF r.outcome = Returned THEN DictUpdate(d, r.result) ELSE d,
         outcome |-> r.outcome, result |-> r.result, reads |-> r.reads]

\* ------------------------------------------------ DataLoader._load_from_excel
\* One pass of the for loop of lines 182-193 (the try/except swallows a
\* failing sheet); lines 195-196 run when it ends.
RECURSIVE ExcelLoopUncaught(_, _, _, _, _)
ExcelLoopUncaught(symbols, answers, i, res, rd) ==
    IF i > Len(symbols) THEN [outcome |-> Returned, result |-> res, reads |-> rd]
    ELSE LET symbol == symbols[i]
         IN  IF answers[symbol] = "raise"
             THEN [outcome |-> Raised("Exception", 184), result |-> EmptyDict,
                   reads |-> Append(rd, symbol)]
             ELSE ExcelLoopUncaught(symbols, answers, i + 1,
                            DictSet(res, symbol, PromoteDate(SheetFrame(answers[symbol]))),
                            Append(rd, symbol))

RECURSIVE ExcelLoop(_, _, _, _, _)
ExcelLoop(symbols, answers, i, res, rd) ==
    IF i > Len(symbols) THEN [outcome |-> Returned, result |-> res, reads |-> rd]
    ELSE LET symbol == symbols[i]
         IN  IF answers[symbol] = "raise"
             THEN ExcelLoop(symbols, answers, i + 1, res, Append(rd, symbol))
             ELSE ExcelLoop(symbols, answers, i + 1,
                            DictSet(res, symbol, PromoteDate(SheetFrame(answers[symbol]))),
                            Append(rd, symbol))

LoadFromExcel(d, symbols, answers, exists) ==
    IF ~exists
    THEN [data |-> d, outcome |-> Raised("FileNotFoundError", 179),
          result |-> EmptyDict, reads |-> <<>>]
    ELSE LET r == ExcelLoop(symbols, answers, 1, EmptyDict, <<>>)
         IN  [data    |-> IF r.outcome = Returned THEN DictUpdate(d, r.result) ELSE d,
              outcome |-> r.outcome, result |-> r.result, reads |-> r.reads]

\* ------------------------------------------------ DataLoader.load_from_source
Dispatch(d, source, symbols, answers, exists) ==
    IF Lower(source) = StrYfinance THEN LoadFromYfinance(d, symbols, answers)
    ELSE IF Lower(source) = StrCsv THEN LoadFromCsv(d, symbols, answers)
    ELSE IF Lower(source) = StrExcel THEN LoadFromExcel(d, symbols, answers, exists)
    ELSE [data |-> d, outcome |-> Raised("ValueError", 59),
          result |-> EmptyDict, reads |-> <<>>]

\* ------------------------------------------------ DataLoader.calculate_returns
\* One pass of the for loop of lines 222-236 over self.data.
RECURSIVE ReturnsLoop(_, _, _, _, _)
ReturnsLoop(d, symbols, period, method, i) ==
    IF i > Len(symbols) THEN [data |-> d, outcome |-> Returned]
    ELSE LET symbol == symbols[i]
         IN  IF ~Has(d, symbol) THEN ReturnsLoop(d, symbols, period, method, i + 1)
             ELSE LET df == d.map[symbol]
                  IN  IF Lower(method) = StrSimple
                      THEN IF "close" \notin Columns(df)
                           THEN [data |-> d, outcome |-> Raised("KeyError", 230)]
                           ELSE ReturnsLoop(
                                  DictSet(d, symbol,
                                          SetColumn(df, "return",
                                                    PctChange(df.cols["close"], period))),
                                  symbols, period, method, i + 1)
                      ELSE IF Lower(method) = StrLog
                      THEN IF "close" \notin Columns(df)
                           THEN [data |-> d, outcome |-> Raised("KeyError", 232)]
                           ELSE ReturnsLoop(
                                  DictSet(d, symbol,
                                          SetColumn(df, "return",
                                                    LogReturn(df.cols["close"], period))),
                                  symbols, period, method, i + 1)
                      ELSE [data |-> d, outcome |-> Raised("ValueError", 234)]

\* {symbol: self.data[symbol] for symbol in symbols}, line 238
RECURSIVE Comprehension(_, _, _, _)
Comprehension(d, symbols, i, res) ==
    IF i > Len(symbols) THEN [outcome |-> Returned, result |-> res]
    ELSE IF ~Has(d, symbols[i])
         THEN [outcome |-> Raised("KeyError", 238), result |-> EmptyDict]
         ELSE Comprehension(d, symbols, i + 1, DictSet(res, symbols[i], d.map[symbols[i]]))

CalculateReturnsValidateFirst(d, symbolsArg, none, period, method) ==
    LET symbols == IF none THEN d.keys ELSE symbolsArg
        loop == ReturnsLoop(d, symbols, period, method, 1)
        ret == Comprehension(loop.data, symbols, 1, EmptyDict)
    IN  IF Lower(method) # StrSimple /\ Lower(method) # StrLog
        THEN [data |-> d, outcome |-> Raised("ValueError", 234), result |-> EmptyDict]
        ELSE IF loop.outcome # Returned
        THEN [data |-> loop.data, outcome |-> loop.outcome, result |-> EmptyDict]
        ELSE [data |-> loop.data, outcome |-> ret.outcome, result |-> ret.result]

CalculateReturnsRollback(d, symbolsArg, none, period, method) ==
    LET symbols == IF none THEN d.keys ELSE symbolsArg
        loop == ReturnsLoop(d, symbols, period, method, 1)
        ret == Comprehension(loop.data, symbols, 1, EmptyDict)
    IN  IF loop.outcome # Returned
        THEN [data |-> d, outcome |-> loop.outcome, result |-> EmptyDict]
        ELSE [data |-> loop.data, outcome |-> ret.outcome, result |-> ret.result]

CalculateReturns(d, symbolsArg, none, period, method) ==
    LET symbols == IF none THEN d.keys ELSE symbolsArg
        loop == ReturnsLoop(d, symbols, period, method, 1)
        ret == Comprehension(loop.data, symbols, 1, EmptyDict)
    IN  IF loop.outcome # Returned
        THEN [data |-> loop.data, outcome |-> loop.outcome, result |-> EmptyDict]
        ELSE [data |-> loop.data, outcome |-> ret.outcome, result |-> ret.result]

\* ------------------------------------------------ DataLoader.get_data
GetDataOf(d, symbol) ==
    IF ~Has(d, symbol)
    THEN [outcome |-> Raised("KeyError", 255), result |-> EmptyDict]
    ELSE [outcome |-> Returned, result |-> d.map[symbol]]

\* ------------------------------------------------------------- the machine
\* DataLoader.__init__
Init ==
    /\ data = EmptyDict
    /\ prior = EmptyDict
    /\ call = NoCall
    /\ outcome = Returned
    /\ result = EmptyDict
    /\ reads = <<>>

\* no call is in progress and no return value is waiting for the caller
Idle == call = NoCall

\* str equality up to the case of each letter, spelled out letter by letter
Spells(str, word) ==
    /\ Len(str) = Len(word)
    /\ \A i \in 1..Len(word) :
          \/ str[i] = word[i]
          \/ \E k \in 1..Len(LowerLetters) : LowerLetters[k] = word[i] /\ UpperLetters[k] = str[i]

\* which collaborator a source string reaches, and what it may answer
AnswerSet(source) ==
    IF Spells(source, StrYfinance) THEN FetchAnswers
    ELSE IF Spells(source, StrCsv) THEN CsvAnswers
    ELSE IF Spells(source, StrExcel) THEN SheetAnswers
    ELSE {}

LoadFromSource ==
    \E source \in SourceArgs, symbols \in SymbolLists, exists \in BOOLEAN :
      \E answers \in (IF AnswerSet(source) = {} THEN {<<>>}
                      ELSE AnswersFor(AnswerSet(source), symbols)) :
        /\ Idle
        /\ Spells(source, StrExcel) \/ exists
        /\ LET eff == Dispatch(data, source, symbols, answers, exists)
           IN  /\ data' = eff.data
               /\ outcome' = eff.outcome
               /\ result' = eff.result
               /\ reads' = eff.reads
        /\ prior' = data
        /\ call' = [NoCall EXCEPT !.name = "load_from_source", !.source = source,
                                  !.symbols = symbols, !.answers = answers,
                                  !.exists = exists]

CalculateReturnsCall ==
    \E symbols \in SymbolLists, none \in BOOLEAN, period \in Periods, method \in MethodArgs :
        /\ Idle
        /\ none => symbols = <<>>
        /\ LET eff == CalculateReturns(data, symbols, none, period, method)
           IN  /\ data' = eff.data
               /\ outcome' = eff.outcome
               /\ result' = eff.result
        /\ reads' = <<>>
        /\ prior' = data
        /\ call' = [NoCall EXCEPT !.name = "calculate_returns", !.symbols = symbols,
                                  !.none = none, !.period = period, !.method = method]

GetData ==
    \E symbol \in Symbols :
        /\ Idle
        /\ LET eff == GetDataOf(data, symbol)
           IN  /\ outcome' = eff.outcome
               /\ result' = eff.result
        /\ data' = data
        /\ reads' = <<>>
        /\ prior' = data
        /\ call' = [NoCall EXCEPT !.name = "get_data", !.symbol = symbol]

\* DataLoader.get_all_data returns self.data itself
GetAllData ==
    /\ Idle
    /\ result' = data
    /\ outcome' = Returned
    /\ data' = data
    /\ reads' = <<>>
    /\ prior' = data
    /\ call' = [NoCall EXCEPT !.name = "get_all_data"]

\* The caller takes the returned value (or the exception); what remains of
\* the call is self.data.
Return ==
    /\ ~Idle
    /\ data' = data
    /\ prior' = EmptyDict
    /\ call' = NoCall
    /\ outcome' = Returned
    /\ result' = EmptyDict
    /\ reads' = <<>>

Next == LoadFromSource \/ CalculateReturnsCall \/ GetData \/ GetAllData \/ Return

Spec == Init /\ [][Next]_vars

\* ---------------------------------------------------------------- claims
Keys(d) == DOMAIN d.map

IsLoad == call.name = "load_from_source"
IsReturns == call.name = "calculate_returns"

\* the symbols a calculate_returns call is about, in processing order
Requested == IF call.none THEN prior.keys ELSE call.symbols

MethodIsSimple == Spells(call.method, StrSimple)
MethodIsLog == Spells(call.method, StrLog)
MethodSupported == MethodIsSimple \/ MethodIsLog

\* position i of the request holds a loaded series without a 'close' field
LacksClose(i) ==
    /\ Requested[i] \in Keys(prior)
    /\ "close" \notin Columns(prior.map[Requested[i]])

FirstFailure ==
    IF \E i \in 1..Len(Requested) : LacksClose(i)
    THEN CHOOSE i \in 1..Len(Requested) : LacksClose(i) /\ \A j \in 1..(i - 1) : ~LacksClose(j)
    ELSE Len(Requested) + 1

\* the loaded symbols requested before the first failing position
Processed ==
    {Requested[i] : i \in {j \in 1..Len(Requested) :
                              j < FirstFailure /\ Requested[j] \in Keys(prior)}}

\* C1: a requested symbol that is not in the SymbolTable is a non-fatal skip
\* of calculate_returns: with a supported method and every loaded requested
\* series carrying 'close', the call returns, and the returned mapping holds
\* exactly the requested symbols that are loaded.
C1_AbsentSymbolIsSkipped ==
    (/\ IsReturns
     /\ MethodSupported
     /\ \E s \in Range(Requested) : s \notin Keys(prior)
     /\ FirstFailure > Len(Requested))
    => /\ outcome = Returned
       /\ Keys(result) = Range(Requested) \cap Keys(prior)
       /\ \A s \in Keys(result) : "return" \in Columns(result.map[s])

\* C2 (as stated): calculate_returns with a method that is neither 'simple'
\* nor 'log' fails with the unsupported-method error whatever the symbols
\* argument and the SymbolTable are, and changes no stored series.
C2_UnsupportedMethodAlwaysFails ==
    (IsReturns /\ ~MethodSupported)
    => /\ outcome = Raised("ValueError", 234)
       /\ data = prior

\* C2 (amended): calculate_returns fails with the unsupported-method error
\* exactly when the method is neither 'simple' nor 'log' (case-insensitively)
\* and at least one requested symbol is in the SymbolTable; a call with such
\* a method never changes a stored series.
C2_UnsupportedMethodFailsAtFirstLoaded ==
    IsReturns
    => /\ (outcome = Raised("ValueError", 234))
             <=> (~MethodSupported /\ Range(Requested) \cap Keys(prior) # {})
       /\ outcome.exc = "ValueError" => outcome.line = 234
       /\ ~MethodSupported => data = prior

C2_Witness ==
    /\ IsReturns
    /\ ~MethodSupported
    /\ Len(call.symbols) >= 2
    /\ call.symbols[1] \notin Keys(prior)
    /\ call.symbols[2] \in Keys(prior)
    /\ outcome = Raised("ValueError", 234)
    /\ data = prior

\* C3: in yfinance ingestion a symbol whose fetch raises or lacks 'Open' or
\* 'Close' never aborts the others: every requested symbol whose own fetch
\* returned both fields is in the returned mapping and in the SymbolTable.
C3_FetchFailureIsIsolated ==
    (IsLoad /\ Spells(call.source, StrYfinance))
    => \A s \in Range(call.symbols) :
          call.answers[s] = "full"
          => /\ outcome = Returned
             /\ s \in Keys(result)
             /\ s \in Keys(data)

\* the close prices the collaborator of the call's source holds
IngestedCloses ==
    IF Spells(call.source, StrYfinance) THEN ProviderCloses
    ELSE IF Spells(call.source, StrCsv) THEN CsvCloses
    ELSE SheetCloses

\* df has the rows of the call's collaborator
HoldsIngested(df) ==
    /\ Len(df.index) = Len(IngestedCloses)
    /\ "close" \in Columns(df) => df.cols["close"] = IngestedCloses
    /\ "Close" \in Columns(df) => df.cols["Close"] = IngestedCloses

\* C4: after a load_from_source call that returns, the returned keys are
\* requested symbols; the SymbolTable is the prior table overridden by the
\* returned mapping: a returned symbol holds exactly the newly ingested series
\* (no 'return' field of an earlier series survives), any other symbol keeps
\* its prior series.
C4_LoadOverridesByKey ==
    (IsLoad /\ outcome = Returned)
    => /\ Keys(result) \subseteq Range(call.symbols)
       /\ Keys(data) = Keys(prior) \cup Keys(result)
       /\ \A s \in Keys(result) :
             /\ data.map[s] = result.map[s]
             /\ "return" \notin Columns(data.map[s])
             /\ HoldsIngested(data.map[s])
       /\ \A s \in Keys(prior) \ Keys(result) : data.map[s] = prior.map[s]

C4_Witness ==
    /\ IsLoad
    /\ outcome = Returned
    /\ \E s \in Keys(result) :
          /\ s \in Keys(prior)
          /\ "return" \in Columns(prior.map[s])
          /\ Len(prior.map[s].index) # Len(data.map[s].index)
    /\ \E s \in Keys(prior) \ Keys(result) : s \in Range(call.symbols)

SourceSupported ==
    \/ Spells(call.source, StrYfinance)
    \/ Spells(call.source, StrCsv)
    \/ Spells(call.source, StrExcel)

\* C5: load_from_source fails with the unsupported-source error exactly when
\* the source, compared case-insensitively, is none of 'yfinance', 'csv',
\* 'excel'; then no collaborator is read and the SymbolTable is unmodified.
C5_UnsupportedSourceExactly ==
    IsLoad
    => /\ (outcome = Raised("ValueError", 59)) <=> ~SourceSupported
       /\ outcome.exc = "ValueError" => (data = prior /\ reads = <<>> /\ result = EmptyDict)

C5_Witness ==
    /\ IsLoad
    /\ ~SourceSupported
    /\ outcome = Raised("ValueError", 59)
    /\ call.symbols # <<>>
    /\ Keys(prior) # {}
    /\ data = prior

\* every price field of df appears under its canonical lower-case name
Normalized(df) == Columns(df) \cap ProviderFields = {}

\* C6 (as stated): get_data fails with not-found for a symbol that is not
\* loaded; for a loaded symbol, whatever source loaded it, it returns the
\* stored series, normalized to the canonical lower-case field names.
C6_GetDataReturnsNormalized ==
    call.name = "get_data"
    => IF call.symbol \notin Keys(prior)
       THEN outcome = Raised("KeyError", 255)
       ELSE /\ outcome = Returned
            /\ result = prior.map[call.symbol]
            /\ Normalized(result)

\* C6 (amended): get_data fails with not-found for a symbol that is not in
\* the SymbolTable and otherwise returns the symbol's stored series as it is
\* stored; a series stored by a yfinance load carries the five canonical
\* lower-case field names and none of the provider's capitalised ones (csv
\* and excel series keep the field names of the file).
C6_GetDataReturnsStored ==
    /\ call.name = "get_data"
       => /\ IF call.symbol \notin Keys(prior)
             THEN outcome = Raised("KeyError", 255) /\ result = EmptyDict
             ELSE outcome = Returned /\ result = prior.map[call.symbol]
          /\ data = prior
    /\ (IsLoad /\ Spells(call.source, StrYfinance) /\ outcome = Returned)
       => \A s \in Keys(result) :
             /\ data.map[s] = result.map[s]
             /\ CanonicalFields \subseteq Columns(data.map[s])
             /\ Normalized(data.map[s])

C6_Witness ==
    /\ call.name = "get_data"
    /\ outcome = Returned
    /\ result = data.map[call.symbol]
    /\ "Dividends" \in Columns(result)
    /\ CanonicalFields \subseteq Columns(result)
    /\ \E s \in Keys(data) : ~Normalized(data.map[s])

\* row t of a return column computed with period p from closes
ReturnCellRight(cell, closes, t, p) ==
    IF t <= p THEN cell = NaN /\ cell.kind = "nan"
    ELSE /\ cell.den > 0
         /\ IF MethodIsSimple
            THEN /\ cell.kind = "ratio"
                 /\ cell.num * closes[t - p] = cell.den * (closes[t] - closes[t - p])
            ELSE /\ cell.kind = "ln"
                 /\ cell.num * closes[t - p] = cell.den * closes[t]

\* new is old with a 'return' field computed by this call, nothing else changed
GainedReturn(old, new) ==
    /\ Columns(new) = Columns(old) \cup {"return"}
    /\ new.index = old.index
    /\ \A c \in Columns(old) \ {"return"} : new.cols[c] = old.cols[c]
    /\ Len(new.cols["return"]) = Len(old.cols["close"])
    /\ \A t \in 1..Len(old.cols["close"]) :
          ReturnCellRight(new.cols["return"][t], old.cols["close"], t, call.period)

\* C7: every loaded symbol that calculate_returns processes with period
\* p >= 1 gains, in the SymbolTable itself, a 'return' field as long as
\* 'close' whose first p rows are the missing marker (not zero) and whose row
\* t > p is close[t]/close[t-p] - 1 ('simple') or ln(close[t]/close[t-p])
\* ('log'); its other fields are unchanged, and a call that returns hands back
\* the updated series of every requested symbol.
C7_ReturnFieldWritten ==
    (IsReturns /\ MethodSupported /\ call.period >= 1)
    => /\ \A s \in Processed : GainedReturn(prior.map[s], data.map[s])
       /\ outcome = Returned
          => /\ Keys(result) = Range(Requested)
             /\ Processed = Range(Requested)
             /\ \A s \in Keys(result) : result.map[s] = data.map[s]

C7_Witness ==
    /\ IsReturns
    /\ MethodIsSimple
    /\ call.period = 1
    /\ outcome = Returned
    /\ \E s \in Processed :
          /\ "return" \notin Columns(prior.map[s])
          /\ data.map[s].cols["close"] = <<100, 110, 99>>
          /\ data.map[s].cols["return"] =
                <<NaN, [kind |-> "ratio", num |-> 1, den |-> 10],
                       [kind |-> "ratio", num |-> 0 - 1, den |-> 10]>>
          /\ result.map[s] = data.map[s]

\* C8: Excel ingestion of a workbook that does not exist fails with
\* file-not-found before any sheet is read, returns nothing and leaves the
\* SymbolTable unchanged; when the workbook exists every requested sheet is
\* read in order, a sheet that fails only excludes its own symbol, and every
\* other requested symbol is returned and stored.
C8_ExcelFatalOnlyUpFront ==
    (IsLoad /\ Spells(call.source, StrExcel))
    => IF ~call.exists
       THEN /\ outcome = Raised("FileNotFoundError", 179)
            /\ reads = <<>>
            /\ result = EmptyDict
            /\ data = prior
       ELSE /\ outcome = Returned
            /\ reads = call.symbols
            /\ Keys(result) = {s \in Range(call.symbols) : call.answers[s] # "raise"}
            /\ \A s \in Keys(result) : s \in Keys(data) /\ data.map[s] = result.map[s]

C8_Witness ==
    /\ IsLoad
    /\ Spells(call.source, StrExcel)
    /\ call.exists
    /\ Len(call.symbols) >= 2
    /\ call.answers[call.symbols[1]] = "raise"
    /\ call.symbols[2] \in Keys(result)
    /\ call.symbols[1] \notin Keys(result)
    /\ outcome = Returned

IsDataFrame(v) == DOMAIN v = {"index", "cols"}

\* C9: the SymbolTable starts empty, no call of any method, returning or
\* raising, removes a symbol from it, and every symbol in it maps to a series
\* (never to a null).
C9_TableOnlyGrows ==
    /\ data = EmptyDict
    /\ [][Keys(data) \subseteq Keys(data')]_vars
    /\ [](\A s \in Keys(data) : IsDataFrame(data.map[s]))

C9_Witness ==
    /\ IsLoad
    /\ outcome = Returned
    /\ Keys(result) # {}
    /\ Keys(prior) \ Keys(result) # {}
    /\ Keys(data) = Symbols

\* C10: calculate_returns is not atomic: when the method is supported and a
\* requested loaded series has no 'close' field, the call fails at the first
\* such position; every loaded symbol requested before it keeps the 'return'
\* field this call wrote (no rollback), and every symbol not requested before
\* it, the failing one included, keeps its stored series unchanged.
C10_NoRollback ==
    (IsReturns /\ MethodSupported /\ FirstFailure <= Len(Requested))
    => /\ outcome.exc = "KeyError" /\ outcome.line \in {230, 232}
       /\ result = EmptyDict
       /\ \A s \in Processed : GainedReturn(prior.map[s], data.map[s])
       /\ \A s \in Keys(prior) \ Processed : data.map[s] = prior.map[s]
       /\ Requested[FirstFailure] \notin Processed
       /\ Keys(data) = Keys(prior)

C10_Witness ==
    /\ IsReturns
    /\ MethodSupported
    /\ FirstFailure = 2
    /\ Len(Requested) >= 2
    /\ Requested[1] \in Processed
    /\ "return" \notin Columns(prior.map[Requested[1]])
    /\ "return" \in Columns(data.map[Requested[1]])
    /\ outcome.exc = "KeyError"
    /\ data.map[Requested[2]] = prior.map[Requested[2]]

====
